---- MODULE Spec2Model ----
(***************************************************************************)
(* Model of paddle/phi/kernels/autotune/cache.h: the per-family            *)
(* AlgorithmsCache (key -> algorithm, hit/miss counters) and the           *)
(* AutoTuneCache registry (family name -> AlgorithmsCache, snapshot        *)
(* totals, Clean).                                                         *)
(*                                                                         *)
(* Spec is the sequential execution: every call runs to completion before  *)
(* the next one starts, so each operation is one action.  A family cache   *)
(* is an object of the registry's unordered_map; it is identified by its   *)
(* address (an ObjId), and a reference returned by RegisterOrGet is that   *)
(* address.  Clean's clear() destroys the objects and leaves the           *)
(* references held by callers dangling.  An exploration is a run of at     *)
(* most MaxCalls calls.                                                    *)
(***************************************************************************)
EXTENDS Integers, Sequences, FiniteSets, TLC

(***************************************************************************)
(* Bounds of the model.                                                    *)
(***************************************************************************)
NumKeys == 2        \* fingerprints 1..NumKeys
MaxCalls == 5       \* calls made in one run
MaxObjs == 2        \* addresses at which a family cache can be allocated
MaxSmallArg == 3    \* GetKey is applied to the values -1..MaxSmallArg
MaxArgs == 2        \* and to at most MaxArgs arguments

Keys == 1..NumKeys
Algos == {0, 7}                      \* AlgorithmT = int64_t algorithm ids
Names == {"conv2d", "matmul"}        \* algorithm-family names
ObjIds == 1..MaxObjs

(***************************************************************************)
(* float.  A finite non-negative float is <<m, e>>, standing for           *)
(* m * 2^(-e), with m = 0 (and e = 0) or 2^23 <= m < 2^24.                 *)
(***************************************************************************)
MantBits == 24

RECURSIVE Pow2(_)
Pow2(n) == IF n = 0 THEN 1 ELSE 2 * Pow2(n - 1)

FloatZero == <<0, 0>>

\* round-to-nearest-even of (q + rem/d), q the truncated quotient
RoundNearestEven(q, rem, d) ==
    IF 2 * rem > d \/ (2 * rem = d /\ q % 2 = 1) THEN q + 1 ELSE q

\* a mantissa that rounding carried up to 2^24 is renormalised
Renormalise(m, e) ==
    IF m = Pow2(MantBits) THEN <<Pow2(MantBits - 1), e - 1>> ELSE <<m, e>>

\* static_cast<float>(n) for an int64_t n >= 0
RECURSIVE ScaleUp(_, _)
ScaleUp(m, e) ==
    IF m >= Pow2(MantBits - 1) THEN <<m, e>> ELSE ScaleUp(2 * m, e + 1)

RECURSIVE ShiftCount(_)
ShiftCount(n) == IF n < Pow2(MantBits) THEN 0 ELSE 1 + ShiftCount(n \div 2)

IntToFloat(n) ==
    IF n = 0 THEN FloatZero
    ELSE IF n < Pow2(MantBits) THEN ScaleUp(n, 0)
    ELSE LET s == ShiftCount(n)
             d == Pow2(s)
         IN  Renormalise(RoundNearestEven(n \div d, n % d, d), -s)

\* binary long division: nbits more quotient bits of rem/d, rem < d
RECURSIVE DivBits(_, _, _, _)
DivBits(q, rem, d, nbits) ==
    IF nbits = 0 THEN <<q, rem>>
    ELSE IF 2 * rem >= d THEN DivBits(2 * q + 1, 2 * rem - d, d, nbits - 1)
    ELSE DivBits(2 * q, 2 * rem, d, nbits - 1)

\* a / b in float arithmetic, a >= 0, b > 0
FloatDiv(a, b) ==
    IF a[1] = 0 THEN FloatZero
    ELSE LET ge == a[1] >= b[1]
             r0 == IF ge THEN a[1] - b[1] ELSE a[1]
             q0 == IF ge THEN 1 ELSE 0
             n  == IF ge THEN MantBits - 1 ELSE MantBits
             qr == DivBits(q0, r0, b[1], n)
         IN  Renormalise(RoundNearestEven(qr[1], qr[2], b[1]),
                         n + a[2] - b[2])

(***************************************************************************)
(* std::size_t.  A 64-bit word is its four 16-bit limbs, least             *)
(* significant first; the arithmetic wraps at 2^64.                        *)
(***************************************************************************)
LimbBits == 16
NumLimbs == 4
LimbBase == Pow2(LimbBits)

WordZero == [i \in 1..NumLimbs |-> 0]

\* static_cast<size_t>(n) of a signed integer n (sign extension)
RECURSIVE LimbsOf(_, _)
LimbsOf(n, count) ==
    IF count = 0 THEN <<>>
    ELSE <<n % LimbBase>> \o LimbsOf(n \div LimbBase, count - 1)

WordOfInt(n) ==
    IF n >= 0 THEN LimbsOf(n, NumLimbs)
    ELSE [i \in 1..NumLimbs |-> LimbBase - 1 - LimbsOf(-n - 1, NumLimbs)[i]]

\* the literal 0x9e3779b9, by its hexadecimal digits
GoldenHex == <<9, 14, 3, 7, 7, 9, 11, 9>>
GoldenWord ==
    [i \in 1..NumLimbs |->
        IF i = 1 THEN ((GoldenHex[5] * 16 + GoldenHex[6]) * 16 + GoldenHex[7])
                          * 16 + GoldenHex[8]
        ELSE IF i = 2
        THEN ((GoldenHex[1] * 16 + GoldenHex[2]) * 16 + GoldenHex[3])
                 * 16 + GoldenHex[4]
        ELSE 0]

\* a + b, wrapping
RECURSIVE AddLimbs(_, _, _, _)
AddLimbs(a, b, i, carry) ==
    IF i > NumLimbs THEN <<>>
    ELSE LET sum == a[i] + b[i] + carry
         IN  <<sum % LimbBase>> \o AddLimbs(a, b, i + 1, sum \div LimbBase)
WordAdd(a, b) == AddLimbs(a, b, 1, 0)

\* a << n and a >> n for n < 16
WordShl(a, n) ==
    [i \in 1..NumLimbs |->
        ((a[i] * Pow2(n)) % LimbBase)
        + (IF i = 1 THEN 0 ELSE a[i - 1] \div Pow2(LimbBits - n))]
WordShr(a, n) ==
    [i \in 1..NumLimbs |->
        (a[i] \div Pow2(n))
        + (IF i = NumLimbs THEN 0
           ELSE (a[i + 1] % Pow2(n)) * Pow2(LimbBits - n))]

\* a ^ b
RECURSIVE XorLimb(_, _, _)
XorLimb(x, y, bits) ==
    IF bits = 0 THEN 0
    ELSE ((x + y) % 2) + 2 * XorLimb(x \div 2, y \div 2, bits - 1)
WordXor(a, b) == [i \in 1..NumLimbs |-> XorLimb(a[i], b[i], LimbBits)]

(***************************************************************************)
(* HashCombine, std::hash<std::vector<T>> and GetKey.  An argument is an   *)
(* integer (std::hash of an integral type is the conversion to size_t, as  *)
(* in libstdc++ and libc++) or a vector of integers.                       *)
(***************************************************************************)
Scalar(n) == [isvec |-> FALSE, int |-> n, vec |-> <<>>]
Vector(v) == [isvec |-> TRUE, int |-> 0, vec |-> v]

\* HashCombine whose mixing omits the two shifts of the seed
CombineStep_noShift(seed, h) ==
    WordXor(seed, WordAdd(h, GoldenWord))

\* HashCombine reading the two shift amounts the other way round
CombineStep_shiftsSwapped(seed, h) ==
    WordXor(seed,
            WordAdd(WordAdd(WordAdd(h, GoldenWord), WordShl(seed, 2)),
                    WordShr(seed, 6)))

\* *seed ^= hasher(v) + 0x9e3779b9 + (*seed << 6) + (*seed >> 2), for the
\* hash value h of v
CombineStep(seed, h) ==
    WordXor(seed,
            WordAdd(WordAdd(WordAdd(h, GoldenWord), WordShl(seed, 6)),
                    WordShr(seed, 2)))

\* std::hash<std::vector<T>>::operator(): the loop over vec from seed
RECURSIVE HashVector(_, _)
HashVector(seed, vec) ==
    IF vec = <<>> THEN seed
    ELSE HashVector(CombineStep(seed, WordOfInt(Head(vec))), Tail(vec))

\* std::hash<T>()(v)
Hasher(v) == IF v.isvec THEN HashVector(WordZero, v.vec) ELSE WordOfInt(v.int)

\* HashCombine(seed, v, rest...); HashCombine(seed) does nothing
RECURSIVE HashCombine(_, _)
HashCombine(seed, args) ==
    IF args = <<>> THEN seed
    ELSE HashCombine(CombineStep(seed, Hasher(Head(args))), Tail(args))

GetKey(args) == HashCombine(WordZero, args)

(***************************************************************************)
(* The float argument of Clean, as a multiple of 2^-30 (every float in     *)
(* [2^-7, 2^-6) is one, and so are 0.005f and 0.02f).                      *)
(***************************************************************************)
RateUnitBits == 30
\* 0.005f, 0.01f (the float nearest to 0.01, which is below it), the next
\* float above 0.01f, 0.02f
MissRates == {5368709, 10737418, 10737419, 21474836}

\* miss_rate > 0.01: the float is promoted to double and compared with the
\* double 0.01 = 10737418.24 * 2^-30; a multiple u of 2^-30 exceeds it
\* exactly when u > floor(0.01 * 2^30)
ToleranceUnits == Pow2(RateUnitBits) \div 100
ExceedsTolerance(miss_rate) == miss_rate > ToleranceUnits

(***************************************************************************)
(* AlgorithmsCache<int64_t>: the value of one cache object.                *)
(***************************************************************************)
Put(f, k, v) == [x \in (DOMAIN f) \cup {k} |-> IF x = k THEN v ELSE f[x]]
EmptyMap == [x \in {} |-> 0]

\* AlgorithmsCache(): a new, unlocked mutex, hash_.clear(), counters 0
NewCache ==
    [hash_ |-> EmptyMap, cache_mutex_ |-> "free",
     cache_hits_ |-> 0, cache_misses_ |-> 0]

\* Find with the two counters exchanged
FindBody_swapped(c, key) ==
    IF key \in DOMAIN c.hash_
    THEN [cache |-> [c EXCEPT !.cache_misses_ = @ + 1], ret |-> TRUE]
    ELSE [cache |-> [c EXCEPT !.cache_hits_ = @ + 1], ret |-> FALSE]

\* body of Find under the lock: the cache afterwards and the return value
FindBody(c, key) ==
    IF key \in DOMAIN c.hash_
    THEN [cache |-> [c EXCEPT !.cache_hits_ = @ + 1], ret |-> TRUE]
    ELSE [cache |-> [c EXCEPT !.cache_misses_ = @ + 1], ret |-> FALSE]

\* Get without the PADDLE_ENFORCE_NE: hash_[key] default-inserts an absent key
GetBody_noEnforce(c, key) ==
    IF key \notin DOMAIN c.hash_
    THEN [cache |-> [c EXCEPT !.hash_ = Put(@, key, 0)], status |-> "ok",
          ret |-> 0]
    ELSE [cache |-> c, status |-> "ok", ret |-> c.hash_[key]]

\* Get that counts a hit, as if it looked the key up through Find
GetBody_counting(c, key) ==
    IF key \notin DOMAIN c.hash_
    THEN [cache |-> c, status |-> "error", ret |-> 0]
    ELSE [cache |-> [c EXCEPT !.cache_hits_ = @ + 1], status |-> "ok",
          ret |-> c.hash_[key]]

\* body of Get under the lock: PADDLE_ENFORCE_NE throws when the key is
\* absent, otherwise hash_[key] is returned (the key exists, so operator[]
\* inserts nothing)
GetBody(c, key) ==
    IF key \notin DOMAIN c.hash_
    THEN [cache |-> c, status |-> "error", ret |-> 0]
    ELSE [cache |-> c, status |-> "ok", ret |-> c.hash_[key]]

\* Set as hash_.emplace(key, algo), which keeps the value of a present key
SetBody_emplace(c, key, algo) ==
    IF key \in DOMAIN c.hash_ THEN c
    ELSE [c EXCEPT !.hash_ = Put(@, key, algo)]

\* Set that rebuilds the mapping with the new entry only
SetBody_clear(c, key, algo) == [c EXCEPT !.hash_ = Put(EmptyMap, key, algo)]

\* body of Set under the lock: hash_[key] = algo
SetBody(c, key, algo) == [c EXCEPT !.hash_ = Put(@, key, algo)]

\* hash_.size()
SizeBody(c) == Cardinality(DOMAIN c.hash_)

\* CacheHitRate dividing the integers before the conversion to float
CacheHitRateBody_intdiv(c) ==
    LET num_accesses == c.cache_hits_ + c.cache_misses_
    IN  IF num_accesses # 0
        THEN IntToFloat(c.cache_hits_ \div num_accesses)
        ELSE FloatZero

\* body of AlgorithmsCache::CacheHitRate
CacheHitRateBody(c) ==
    LET num_accesses == c.cache_hits_ + c.cache_misses_
    IN  IF num_accesses # 0
        THEN FloatDiv(IntToFloat(c.cache_hits_), IntToFloat(num_accesses))
        ELSE FloatZero

(***************************************************************************)
(* State.                                                                  *)
(***************************************************************************)
VARIABLES
    auto_tune_map_,          \* family name -> address of its cache object
    heap,                    \* address -> AlgorithmsCache, the live objects
    autotune_cache_mutex_,   \* the registry mutex
    total_cache_hits_, total_cache_misses_, total_size_,
    refs,                    \* references callers got from RegisterOrGet
    last,                    \* the call that was made last, and its result
    calls,                   \* number of calls made so far
    lastSet,                 \* history: per live cache, key -> value of the
                             \* last completed Set on that key
    scen,                    \* history: progress of the end-to-end scenario
    hargs,                   \* the arguments of a GetKey call
    hkey,                    \* the fingerprint it returned
    hpc,                     \* "idle", "args" (called) or "key" (returned)
    th,                      \* per thread: the call it is inside, if any
    actor,                   \* history: the thread that took the last step
    finds,                   \* history: per live cache, the completed Finds
    stored                   \* history: per live cache, the values Set stored

vars == <<auto_tune_map_, heap, autotune_cache_mutex_, total_cache_hits_,
          total_cache_misses_, total_size_, refs, last, calls, lastSet,
          scen, hargs, hkey, hpc, th, actor, finds, stored>>

cacheVars == <<auto_tune_map_, heap, autotune_cache_mutex_,
               total_cache_hits_, total_cache_misses_, total_size_, refs,
               last, calls, lastSet, scen>>
hashVars == <<hargs, hkey, hpc>>
concVars == <<th, actor, finds, stored>>

registry == <<auto_tune_map_, heap, autotune_cache_mutex_>>
totals == <<total_cache_hits_, total_cache_misses_, total_size_>>

NoCall ==
    [op |-> "none", name |-> "", obj |-> 0, key |-> 0, val |-> 0,
     rate |-> 0, status |-> "ok", retb |-> FALSE, reti |-> 0,
     retf |-> FloatZero,
     \* history: whether the key was in the cache when the call was made,
     \* and with which value
     had |-> FALSE, old |-> 0]

\* the fields had and old of a call on cache c with this key
Before(call, c, key) ==
    [call EXCEPT !.had = key \in DOMAIN c.hash_,
                 !.old = IF key \in DOMAIN c.hash_ THEN c.hash_[key] ELSE 0]

ScenOff == [obj |-> 0, stage |-> 0]
ScenCall == [key |-> 1, algo |-> 7]

\* the scenario advances when the call is the next one of
\* Find(k1), Set(k1, 7), Find(k1), Get(k1) on the cache it started on
ScenAfter(op, o, key, algo) ==
    IF /\ scen.obj = o
       /\ o # 0
       /\ key = ScenCall.key
       /\ \/ scen.stage \in {0, 2} /\ op = "Find"
          \/ scen.stage = 1 /\ op = "Set" /\ algo = ScenCall.algo
          \/ scen.stage = 3 /\ op = "Get"
    THEN [scen EXCEPT !.stage = @ + 1]
    ELSE ScenOff

\* a further call can be made: the process has not crashed
CanCall == last.status # "crash" /\ calls < MaxCalls

Threads == {"t1", "t2"}

\* a thread that is inside no call.  pc is the thread's position; name,
\* obj, key, val, rate are the arguments of its call (obj the cache the
\* call was made on); found and tmp are the locals of Find; todo, size,
\* hits, misses are the iterator and the locals of UpdateStatus.
IdleThread ==
    [pc |-> "idle", name |-> "", obj |-> 0, key |-> 0, val |-> 0,
     rate |-> 0, found |-> FALSE, tmp |-> 0, todo |-> {}, size |-> 0,
     hits |-> 0, misses |-> 0,
     \* history: Clean destroyed the object the thread is working on
     zombie |-> FALSE,
     \* history: the true sums since UpdateStatus started
     snaps |-> {}]

\* no thread has called anything
InitThreads ==
    /\ th = [t \in Threads |-> IdleThread]
    /\ actor = "none"
    /\ finds = EmptyMap
    /\ stored = EmptyMap

\* the state after construction: no family, totals 0
InitCache ==
    /\ auto_tune_map_ = EmptyMap
    /\ heap = EmptyMap
    /\ autotune_cache_mutex_ = "free"
    /\ total_cache_hits_ = 0
    /\ total_cache_misses_ = 0
    /\ total_size_ = 0
    /\ refs = {}
    /\ last = NoCall
    /\ calls = 0
    /\ lastSet = EmptyMap
    /\ scen = ScenOff

Init ==
    /\ InitCache
    /\ InitThreads
    /\ hargs = <<>>
    /\ hkey = WordZero
    /\ hpc = "idle"

Live(o) == o \in refs /\ o \in DOMAIN heap

(***************************************************************************)
(* AlgorithmsCache operations, called through a reference to a live cache. *)
(***************************************************************************)
Find(o, key) ==
    /\ CanCall
    /\ calls' = calls + 1
    /\ UNCHANGED <<hashVars, concVars>>
    /\ Live(o)
    /\ heap[o].cache_mutex_ = "free"
    /\ LET r == FindBody(heap[o], key)
       IN  /\ heap' = [heap EXCEPT ![o] = r.cache]
           /\ last' = Before([NoCall EXCEPT !.op = "Find", !.obj = o,
                                   !.key = key, !.retb = r.ret], heap[o], key)
    /\ scen' = ScenAfter("Find", o, key, 0)
    /\ UNCHANGED <<auto_tune_map_, autotune_cache_mutex_, totals, refs,
                   lastSet>>

Get(o, key) ==
    /\ CanCall
    /\ calls' = calls + 1
    /\ UNCHANGED <<hashVars, concVars>>
    /\ Live(o)
    /\ heap[o].cache_mutex_ = "free"
    /\ LET r == GetBody(heap[o], key)
       IN  /\ heap' = [heap EXCEPT ![o] = r.cache]
           /\ last' = Before([NoCall EXCEPT !.op = "Get", !.obj = o,
                                   !.key = key, !.status = r.status,
                                   !.reti = r.ret], heap[o], key)
           /\ scen' = IF r.status = "ok" THEN ScenAfter("Get", o, key, 0)
                      ELSE ScenOff
    /\ UNCHANGED <<auto_tune_map_, autotune_cache_mutex_, totals, refs,
                   lastSet>>

Set(o, key, algo) ==
    /\ CanCall
    /\ calls' = calls + 1
    /\ UNCHANGED <<hashVars, concVars>>
    /\ Live(o)
    /\ heap[o].cache_mutex_ = "free"
    /\ heap' = [heap EXCEPT ![o] = SetBody(@, key, algo)]
    /\ last' = Before([NoCall EXCEPT !.op = "Set", !.obj = o, !.key = key,
                                     !.val = algo], heap[o], key)
    /\ lastSet' = [lastSet EXCEPT ![o] = Put(@, key, algo)]
    /\ scen' = ScenAfter("Set", o, key, algo)
    /\ UNCHANGED <<auto_tune_map_, autotune_cache_mutex_, totals, refs>>

\* the const accessors read the members without taking the mutex
CacheMisses(o) ==
    /\ CanCall
    /\ calls' = calls + 1
    /\ UNCHANGED <<hashVars, concVars>>
    /\ Live(o)
    /\ last' = [NoCall EXCEPT !.op = "CacheMisses", !.obj = o,
                              !.reti = heap[o].cache_misses_]
    /\ scen' = ScenOff
    /\ UNCHANGED <<registry, totals, refs, lastSet>>

CacheHits(o) ==
    /\ CanCall
    /\ calls' = calls + 1
    /\ UNCHANGED <<hashVars, concVars>>
    /\ Live(o)
    /\ last' = [NoCall EXCEPT !.op = "CacheHits", !.obj = o,
                              !.reti = heap[o].cache_hits_]
    /\ scen' = ScenOff
    /\ UNCHANGED <<registry, totals, refs, lastSet>>

CacheHitRate(o) ==
    /\ CanCall
    /\ calls' = calls + 1
    /\ UNCHANGED <<hashVars, concVars>>
    /\ Live(o)
    /\ last' = [NoCall EXCEPT !.op = "CacheHitRate", !.obj = o,
                              !.retf = CacheHitRateBody(heap[o])]
    /\ scen' = ScenOff
    /\ UNCHANGED <<registry, totals, refs, lastSet>>

Size(o) ==
    /\ CanCall
    /\ calls' = calls + 1
    /\ UNCHANGED <<hashVars, concVars>>
    /\ Live(o)
    /\ last' = [NoCall EXCEPT !.op = "Size", !.obj = o,
                              !.reti = SizeBody(heap[o])]
    /\ scen' = ScenOff
    /\ UNCHANGED <<registry, totals, refs, lastSet>>

(***************************************************************************)
(* A call through a reference whose cache Clean has destroyed is undefined *)
(* behaviour: it reads or writes freed memory (any result, no effect on    *)
(* the live objects), throws, or crashes the process.  When the address    *)
(* has been allocated again the reference aliases the new cache and the    *)
(* call is a Find/Get/Set on that cache.                                   *)
(***************************************************************************)
UseAfterClean(o) ==
    /\ CanCall
    /\ calls' = calls + 1
    /\ UNCHANGED <<hashVars, concVars>>
    /\ o \in refs
    /\ o \notin DOMAIN heap
    /\ \E st \in {"garbage", "error", "crash"} :
           last' = [NoCall EXCEPT !.op = "UseAfterClean", !.obj = o,
                                  !.status = st]
    /\ scen' = ScenOff
    /\ UNCHANGED <<registry, totals, refs, lastSet>>

(***************************************************************************)
(* AutoTuneCache.                                                          *)
(***************************************************************************)
\* RegisterOrGet without the find(): the family is assigned a new cache on
\* every call
RegisterOrGetBody_always(map, hp, algo_type, o) ==
    [map |-> Put(map, algo_type, o), heap |-> Put(hp, o, NewCache)]

\* body of RegisterOrGet under the lock: the family map and the objects
\* afterwards.  When algo_type is not registered, operator[] allocates a
\* node at a free address o and the local `cache` is copy-assigned into it.
RegisterOrGetBody(map, hp, algo_type, o) ==
    IF algo_type \notin DOMAIN map
    THEN [map |-> Put(map, algo_type, o), heap |-> Put(hp, o, NewCache)]
    ELSE [map |-> map, heap |-> hp]

RegisterOrGet(algo_type) ==
    /\ CanCall
    /\ calls' = calls + 1
    /\ UNCHANGED <<hashVars, concVars>>
    /\ autotune_cache_mutex_ = "free"
    /\ \E o \in IF algo_type \in DOMAIN auto_tune_map_
                 THEN {auto_tune_map_[algo_type]}
                 ELSE ObjIds \ DOMAIN heap :
          LET r == RegisterOrGetBody(auto_tune_map_, heap, algo_type, o)
          IN  /\ auto_tune_map_' = r.map
              /\ heap' = r.heap
              /\ lastSet' = IF algo_type \in DOMAIN auto_tune_map_
                            THEN lastSet ELSE Put(lastSet, o, EmptyMap)
              /\ scen' = IF algo_type \in DOMAIN auto_tune_map_
                         THEN ScenOff ELSE [obj |-> o, stage |-> 0]
    /\ refs' = refs \cup {auto_tune_map_'[algo_type]}
    /\ last' = [NoCall EXCEPT !.op = "RegisterOrGet", !.name = algo_type,
                              !.obj = auto_tune_map_'[algo_type],
                              !.had = algo_type \in DOMAIN auto_tune_map_]
    /\ UNCHANGED <<autotune_cache_mutex_, totals>>

\* Clean with >= in place of >
CleanBody_ge(map, miss_rate) ==
    IF miss_rate >= ToleranceUnits THEN EmptyMap ELSE map

\* Clean that erases one family only
CleanBody_selective(map, miss_rate) ==
    IF ExceedsTolerance(miss_rate) /\ DOMAIN map # {}
    THEN LET n == CHOOSE x \in DOMAIN map : TRUE
         IN  [x \in (DOMAIN map) \ {n} |-> map[x]]
    ELSE map

\* the family map after Clean(miss_rate)
CleanBody(map, miss_rate) ==
    IF ExceedsTolerance(miss_rate) THEN EmptyMap ELSE map

Clean(miss_rate) ==
    /\ CanCall
    /\ calls' = calls + 1
    /\ UNCHANGED <<hashVars, concVars>>
    /\ autotune_cache_mutex_ = "free"
    /\ auto_tune_map_' = CleanBody(auto_tune_map_, miss_rate)
    \* the objects of the erased nodes are destroyed
    /\ heap' = [o \in {auto_tune_map_'[n] : n \in DOMAIN auto_tune_map_'}
                  |-> heap[o]]
    /\ lastSet' = [o \in DOMAIN heap' |-> lastSet[o]]
    /\ last' = [NoCall EXCEPT !.op = "Clean", !.rate = miss_rate]
    /\ scen' = ScenOff
    /\ UNCHANGED <<autotune_cache_mutex_, totals, refs>>

\* UpdateStatus assigning where it should accumulate
SumOver_assign(stat) ==
    IF DOMAIN stat = {} THEN 0
    ELSE stat[CHOOSE x \in DOMAIN stat : TRUE]

\* the loop of UpdateStatus: the sum, over the entries v of the family map,
\* of stat[v.first], the statistic read from v.second
RECURSIVE SumOver(_)
SumOver(stat) ==
    IF DOMAIN stat = {} THEN 0
    ELSE LET n == CHOOSE x \in DOMAIN stat : TRUE
         IN  stat[n] + SumOver([x \in (DOMAIN stat) \ {n} |-> stat[x]])

UpdateStatus ==
    /\ CanCall
    /\ calls' = calls + 1
    /\ UNCHANGED <<hashVars, concVars>>
    /\ total_size_' = SumOver([n \in DOMAIN auto_tune_map_ |->
                          SizeBody(heap[auto_tune_map_[n]])])
    /\ total_cache_hits_' = SumOver([n \in DOMAIN auto_tune_map_ |->
                          heap[auto_tune_map_[n]].cache_hits_])
    /\ total_cache_misses_' = SumOver([n \in DOMAIN auto_tune_map_ |->
                          heap[auto_tune_map_[n]].cache_misses_])
    /\ last' = [NoCall EXCEPT !.op = "UpdateStatus"]
    /\ scen' = ScenOff
    /\ UNCHANGED <<registry, refs, lastSet>>

\* body of AutoTuneCache::CacheHitRate
TotalCacheHitRateBody(hits, misses) ==
    LET total_num_accesses == hits + misses
    IN  IF total_num_accesses # 0
        THEN FloatDiv(IntToFloat(hits), IntToFloat(total_num_accesses))
        ELSE FloatZero

AutoTuneCache_Size ==
    /\ CanCall
    /\ calls' = calls + 1
    /\ UNCHANGED <<hashVars, concVars>>
    /\ last' = [NoCall EXCEPT !.op = "AutoTuneCache::Size",
                              !.reti = total_size_]
    /\ scen' = ScenOff
    /\ UNCHANGED <<registry, totals, refs, lastSet>>

AutoTuneCache_CacheHits ==
    /\ CanCall
    /\ calls' = calls + 1
    /\ UNCHANGED <<hashVars, concVars>>
    /\ last' = [NoCall EXCEPT !.op = "AutoTuneCache::CacheHits",
                              !.reti = total_cache_hits_]
    /\ scen' = ScenOff
    /\ UNCHANGED <<registry, totals, refs, lastSet>>

AutoTuneCache_CacheMisses ==
    /\ CanCall
    /\ calls' = calls + 1
    /\ UNCHANGED <<hashVars, concVars>>
    /\ last' = [NoCall EXCEPT !.op = "AutoTuneCache::CacheMisses",
                              !.reti = total_cache_misses_]
    /\ scen' = ScenOff
    /\ UNCHANGED <<registry, totals, refs, lastSet>>

AutoTuneCache_CacheHitRate ==
    /\ CanCall
    /\ calls' = calls + 1
    /\ UNCHANGED <<hashVars, concVars>>
    /\ last' = [NoCall EXCEPT !.op = "AutoTuneCache::CacheHitRate",
                      !.retf = TotalCacheHitRateBody(total_cache_hits_,
                                                     total_cache_misses_)]
    /\ scen' = ScenOff
    /\ UNCHANGED <<registry, totals, refs, lastSet>>

Next ==
    \/ \E o \in ObjIds, key \in Keys : Find(o, key)
    \/ \E o \in ObjIds, key \in Keys : Get(o, key)
    \/ \E o \in ObjIds, key \in Keys, algo \in Algos : Set(o, key, algo)
    \/ \E o \in ObjIds : CacheMisses(o)
    \/ \E o \in ObjIds : CacheHits(o)
    \/ \E o \in ObjIds : CacheHitRate(o)
    \/ \E o \in ObjIds : Size(o)
    \/ \E o \in ObjIds : UseAfterClean(o)
    \/ \E algo_type \in Names : RegisterOrGet(algo_type)
    \/ \E miss_rate \in MissRates : Clean(miss_rate)
    \/ UpdateStatus
    \/ AutoTuneCache_Size
    \/ AutoTuneCache_CacheHits
    \/ AutoTuneCache_CacheMisses
    \/ AutoTuneCache_CacheHitRate

Spec == Init /\ [][Next]_vars

(***************************************************************************)
(* SpecHash: GetKey applied to an argument list of at most MaxArgs         *)
(* arguments, each an integer or a vector of 0, 1 or 2 integers.           *)
(* 1478 and 1988 are two dimension values whose keys collide.              *)
(***************************************************************************)
HashInts == (-1..MaxSmallArg) \cup {1478, 1988}
VecInts == {-1, 1988}
VecLens == 0..2
SeqsUpTo(S, n) == UNION {[1..m -> S] : m \in 0..n}
HashArgs == {Scalar(n) : n \in HashInts}
                \cup {Vector(v) : v \in UNION {[1..m -> VecInts] : m \in VecLens}}

InitHash ==
    /\ InitCache
    /\ InitThreads
    /\ hargs \in SeqsUpTo(HashArgs, MaxArgs)
    /\ hkey = WordZero
    /\ hpc = "args"

GetKeyCall ==
    /\ hpc = "args"
    /\ hkey' = GetKey(hargs)
    /\ hpc' = "key"
    /\ UNCHANGED <<cacheVars, hargs, concVars>>

NextHash == GetKeyCall

SpecHash == InitHash /\ [][NextHash]_vars

(***************************************************************************)
(* Properties.                                                             *)
(***************************************************************************)
\* the live objects are exactly the nodes of the family map
TypeOK ==
    /\ DOMAIN auto_tune_map_ \subseteq Names
    /\ DOMAIN heap = {auto_tune_map_[n] : n \in DOMAIN auto_tune_map_}
    /\ DOMAIN heap \subseteq refs
    /\ DOMAIN lastSet = DOMAIN heap
    /\ \A n, m \in DOMAIN auto_tune_map_ :
           auto_tune_map_[n] = auto_tune_map_[m] => n = m

\* the call of this step was made on cache o (which was live) with this key
CacheCall(op, o, key) ==
    /\ calls' = calls + 1
    /\ last'.op = op
    /\ last'.obj = o
    /\ last'.key = key

\* C1: once Set(k, v) has completed on a cache, and until a flushing Clean
\* or a Set(k, v') with another value, every Find(k) on that cache returns
\* true and every Get(k) returns v, whatever other calls are made in
\* between.  lastSet[o][k] is the value of the last completed Set(k, .) on
\* the cache at o since it was created; a flush discards it.
C1_FindGetAfterSet ==
    (last.op \in {"Find", "Get"} /\ last.obj \in DOMAIN lastSet
       /\ last.key \in DOMAIN lastSet[last.obj])
    => /\ last.op = "Find" => last.retb = TRUE
       /\ last.op = "Get" => /\ last.status = "ok"
                             /\ last.reti = lastSet[last.obj][last.key]

\* Get(k) returned the value of a Set(k, v) that overwrote another value,
\* after a Find and with another key holding a different value
C1_Witness ==
    /\ last.op = "Get"
    /\ last.status = "ok"
    /\ last.reti = 7
    /\ last.obj \in DOMAIN heap
    /\ heap[last.obj].cache_hits_ + heap[last.obj].cache_misses_ > 0
    /\ \E k \in DOMAIN heap[last.obj].hash_ :
           k # last.key /\ heap[last.obj].hash_[k] # last.reti

\* C2: Get(k) on an absent key throws the precondition error and changes
\* nothing: the mappings, sizes and counters of all caches, the family map
\* and the totals are as before, k is still absent and the mutex of the
\* cache is free again; and no other call on a live cache or on the
\* registry fails.
C2_GetAbsentFails ==
    [][/\ \A o \in DOMAIN heap, k \in Keys :
             (CacheCall("Get", o, k) /\ k \notin DOMAIN heap[o].hash_)
             => /\ last'.status = "error"
                /\ heap' = heap
                /\ auto_tune_map_' = auto_tune_map_
                /\ totals' = totals
                /\ k \notin DOMAIN heap'[o].hash_
                /\ heap'[o].cache_mutex_ = "free"
       /\ (last'.status = "error" /\ last'.op # "UseAfterClean")
             => /\ last'.op = "Get"
                /\ last'.obj \in DOMAIN heap
                /\ last'.key \notin DOMAIN heap[last'.obj].hash_
       /\ last'.status = "crash" => last'.op = "UseAfterClean"]_vars

\* a Get failed on a cache that holds another key and has counted accesses
C2_Witness ==
    /\ last.op = "Get"
    /\ last.status = "error"
    /\ last.obj \in DOMAIN heap
    /\ heap[last.obj].hash_ # EmptyMap
    /\ heap[last.obj].cache_hits_ > 0
    /\ heap[last.obj].cache_misses_ > 0

\* C3: Find(k) returns true exactly when k is in the mapping; it adds 1 to
\* misses and leaves hits when k is absent, adds 1 to hits and leaves
\* misses when k is present, and changes neither the mapping nor Size.
C3_FindCounts ==
    [][\A o \in DOMAIN heap, k \in Keys :
         CacheCall("Find", o, k)
         => LET c == heap[o]
                d == heap'[o]
                present == k \in DOMAIN c.hash_
            IN  /\ last'.retb = present
                /\ last'.status = "ok"
                /\ present => /\ d.cache_hits_ = c.cache_hits_ + 1
                              /\ d.cache_misses_ = c.cache_misses_
                /\ ~present => /\ d.cache_misses_ = c.cache_misses_ + 1
                               /\ d.cache_hits_ = c.cache_hits_
                /\ d.hash_ = c.hash_
                /\ SizeBody(d) = SizeBody(c)]_vars

\* a Find hit on a cache that has also counted a miss
C3_Witness ==
    /\ last.op = "Find"
    /\ last.retb
    /\ last.obj \in DOMAIN heap
    /\ heap[last.obj].cache_hits_ >= 1
    /\ heap[last.obj].cache_misses_ >= 1

\* this step is a call of the registry operation op
RegistryCall(op) == calls' = calls + 1 /\ last'.op = op

\* hits = misses = 0 and no entry
IsFresh(c) ==
    /\ DOMAIN c.hash_ = {}
    /\ c.cache_hits_ = 0
    /\ c.cache_misses_ = 0

\* C4: Clean(missRate) flushes exactly when missRate > 0.01 (in units of
\* 2^-30: 100 * units > 2^30), whatever the statistics of the registry.  A
\* flush discards every family, and RegisterOrGet then gives a cache with
\* hits = misses = 0 and Size 0; otherwise (0.01f and 0.005f included) the
\* registered families, their mappings and counters are untouched.
C4_CleanThreshold ==
    [][/\ RegistryCall("Clean")
          => IF 100 * last'.rate > Pow2(RateUnitBits)
             THEN auto_tune_map_' = EmptyMap /\ heap' = EmptyMap
             ELSE auto_tune_map_' = auto_tune_map_ /\ heap' = heap
       /\ (RegistryCall("RegisterOrGet") /\ last.op = "Clean"
             /\ 100 * last.rate > Pow2(RateUnitBits))
          => IsFresh(heap'[last'.obj])]_vars

\* a Clean with the first float above 0.01 flushed two families that a
\* snapshot had counted entries for
C4_Witness ==
    /\ last.op = "Clean"
    /\ last.rate = 10737419
    /\ Cardinality(refs) = 2
    /\ heap = EmptyMap
    /\ total_size_ > 0

\* sums over the registered families, by counting
SumOfSizes ==
    Cardinality(UNION {{<<n, k>> : k \in DOMAIN heap[auto_tune_map_[n]].hash_}
                          : n \in DOMAIN auto_tune_map_})
SumOfHits ==
    Cardinality(UNION {{<<n, i>> : i \in 1..heap[auto_tune_map_[n]].cache_hits_}
                          : n \in DOMAIN auto_tune_map_})
SumOfMisses ==
    Cardinality(UNION {{<<n, i>> :
                           i \in 1..heap[auto_tune_map_[n]].cache_misses_}
                          : n \in DOMAIN auto_tune_map_})

\* C5: the totals are 0 at first; UpdateStatus sets them to the sums of
\* Size, hits and misses over the families registered when it is called
\* and changes no family cache; no other call changes them (so they keep
\* the pre-flush values after a flushing Clean, and the next UpdateStatus
\* sets them to 0); the registry accessors return the totals.
C5_TotalsSnapshot ==
    /\ total_size_ = 0 /\ total_cache_hits_ = 0 /\ total_cache_misses_ = 0
    /\ [][/\ RegistryCall("UpdateStatus")
             => /\ total_size_' = SumOfSizes
                /\ total_cache_hits_' = SumOfHits
                /\ total_cache_misses_' = SumOfMisses
                /\ registry' = registry
          /\ ~RegistryCall("UpdateStatus") => totals' = totals
          /\ (RegistryCall("UpdateStatus") /\ auto_tune_map_ = EmptyMap)
             => /\ total_size_' = 0
                /\ total_cache_hits_' = 0
                /\ total_cache_misses_' = 0
          /\ RegistryCall("AutoTuneCache::Size")
             => last'.reti = total_size_
          /\ RegistryCall("AutoTuneCache::CacheHits")
             => last'.reti = total_cache_hits_
          /\ RegistryCall("AutoTuneCache::CacheMisses")
             => last'.reti = total_cache_misses_]_vars

\* UpdateStatus has summed over two families, each with an entry
C5_Witness ==
    /\ last.op = "UpdateStatus"
    /\ Cardinality(DOMAIN auto_tune_map_) = 2
    /\ \A n \in DOMAIN auto_tune_map_ :
           SizeBody(heap[auto_tune_map_[n]]) >= 1
    /\ total_size_ >= 2

\* C6: RegisterOrGet(name) on an unregistered name creates an empty cache
\* (Size 0, hits 0, misses 0), returns it and leaves the other families as
\* they were; on a registered name it returns the cache registered under
\* the name, the same object with its entries and counters, and changes
\* nothing.  It never fails.
C6_RegisterOrGet ==
    [][\A name \in Names :
         (RegistryCall("RegisterOrGet") /\ last'.name = name)
         => /\ last'.status = "ok"
            /\ name \in DOMAIN auto_tune_map_'
            /\ last'.obj = auto_tune_map_'[name]
            /\ \A n \in DOMAIN auto_tune_map_ :
                  /\ n \in DOMAIN auto_tune_map_'
                  /\ auto_tune_map_'[n] = auto_tune_map_[n]
                  /\ heap'[auto_tune_map_[n]] = heap[auto_tune_map_[n]]
            /\ DOMAIN auto_tune_map_' = DOMAIN auto_tune_map_ \cup {name}
            /\ name \notin DOMAIN auto_tune_map_
               => /\ last'.obj \notin DOMAIN heap
                  /\ IsFresh(heap'[last'.obj])
                  /\ SizeBody(heap'[last'.obj]) = 0]_vars

\* a second RegisterOrGet returned a cache with an entry and a counted
\* access, made through the first reference, while another family exists
C6_Witness ==
    /\ last.op = "RegisterOrGet"
    /\ last.had
    /\ Cardinality(DOMAIN auto_tune_map_) = 2
    /\ heap[last.obj].hash_ # EmptyMap
    /\ heap[last.obj].cache_hits_ + heap[last.obj].cache_misses_ > 0

\* C7: Set(k, v) leaves Get(k) = v; on an absent key Size grows by exactly
\* 1, on a present key (a repeated Set) Size is unchanged; the other keys
\* keep their values.
C7_SetOverwrites ==
    [][\A o \in DOMAIN heap, k \in Keys :
         CacheCall("Set", o, k)
         => LET c == heap[o]
                d == heap'[o]
            IN  /\ GetBody(d, k).status = "ok"
                /\ GetBody(d, k).ret = last'.val
                /\ k \notin DOMAIN c.hash_ => SizeBody(d) = SizeBody(c) + 1
                /\ k \in DOMAIN c.hash_ => SizeBody(d) = SizeBody(c)
                /\ \A j \in Keys \ {k} :
                      /\ j \in DOMAIN d.hash_ <=> j \in DOMAIN c.hash_
                      /\ j \in DOMAIN c.hash_ => d.hash_[j] = c.hash_[j]]_vars

\* a Set replaced the value of a present key by another value, next to a
\* second key
C7_Witness ==
    /\ last.op = "Set"
    /\ last.had
    /\ last.old # last.val
    /\ last.obj \in DOMAIN heap
    /\ SizeBody(heap[last.obj]) = 2

\* C8: while a cache lives, its hits and misses never decrease, and only a
\* Find on that cache changes either of them: every other call (Get that
\* returns or throws, Set, the accessors, RegisterOrGet, UpdateStatus, a
\* Clean that does not flush, a call on another cache) leaves both as
\* they were.
C8_OnlyFindCounts ==
    [][\A o \in (DOMAIN heap) \cap (DOMAIN heap') :
         LET c == heap[o]
             d == heap'[o]
         IN  /\ d.cache_hits_ >= c.cache_hits_
             /\ d.cache_misses_ >= c.cache_misses_
             /\ ~(last'.op = "Find" /\ last'.obj = o)
                => /\ d.cache_hits_ = c.cache_hits_
                   /\ d.cache_misses_ = c.cache_misses_]_vars

\* a Get returned a value from a cache that has counted a hit and a miss
C8_Witness ==
    /\ last.op = "Get"
    /\ last.status = "ok"
    /\ last.obj \in DOMAIN heap
    /\ heap[last.obj].cache_hits_ = 1
    /\ heap[last.obj].cache_misses_ = 1

\* C9: a cache is created Empty, a Set makes it Populated, and no call
\* removes a key or lowers Size or destroys the cache, except a flushing
\* Clean, which destroys every family at once; no call empties or resets
\* one family and leaves another.
C9_PopulatedUntilFlush ==
    [][/\ \A o \in (DOMAIN heap') \ (DOMAIN heap) : IsFresh(heap'[o])
       /\ \A o \in DOMAIN heap :
            /\ (last'.op = "Set" /\ last'.obj = o)
               => heap'[o].hash_ # EmptyMap
            /\ o \in DOMAIN heap'
               => /\ DOMAIN heap[o].hash_ \subseteq DOMAIN heap'[o].hash_
                  /\ SizeBody(heap'[o]) >= SizeBody(heap[o])
            /\ o \notin DOMAIN heap'
               => /\ last'.op = "Clean"
                  /\ 100 * last'.rate > Pow2(RateUnitBits)
                  /\ heap' = EmptyMap
                  /\ auto_tune_map_' = EmptyMap]_vars

\* a populated cache took a Set of a second key and holds both
C9_Witness ==
    /\ last.op = "Set"
    /\ ~last.had
    /\ last.obj \in DOMAIN heap
    /\ DOMAIN heap[last.obj].hash_ = {1, 2}
    /\ Cardinality(DOMAIN auto_tune_map_) = 2

\* the float r is 0 when hits = 0 and otherwise the float nearest to
\* hits / accesses: a 24-bit mantissa r[1] with
\* |r[1] * 2^-r[2] - hits / accesses| <= 2^-r[2] / 2
IsRatio(r, hits, accesses) ==
    IF hits = 0 THEN r = <<0, 0>>
    ELSE /\ r[1] >= Pow2(MantBits - 1)
         /\ r[1] < Pow2(MantBits)
         /\ r[2] >= 0
         /\ LET err == r[1] * accesses - hits * Pow2(r[2])
            IN  2 * err <= accesses /\ -2 * err <= accesses

\* C10: CacheHitRate() of a cache is hits / (hits + misses) (as a float)
\* when hits + misses > 0 and 0 otherwise, and the registry's
\* CacheHitRate() is the same over the totals.  On a fresh cache Find(k1)
\* returns false with misses = 1, and after Set(k1, 7) Find(k1) returns
\* true with hits = 1, Get(k1) returns 7 and CacheHitRate() is exactly 1/2.
C10_HitRate ==
    /\ \A o \in DOMAIN heap :
         LET c == heap[o]
             r == CacheHitRateBody(c)
         IN  /\ c.cache_hits_ + c.cache_misses_ = 0 => r = <<0, 0>>
             /\ IsRatio(r, c.cache_hits_, c.cache_hits_ + c.cache_misses_)
    /\ LET r == TotalCacheHitRateBody(total_cache_hits_, total_cache_misses_)
       IN  /\ total_cache_hits_ + total_cache_misses_ = 0 => r = <<0, 0>>
           /\ IsRatio(r, total_cache_hits_,
                      total_cache_hits_ + total_cache_misses_)
    /\ (last.op = "CacheHitRate" /\ last.obj \in DOMAIN heap)
       => IsRatio(last.retf, heap[last.obj].cache_hits_,
                  heap[last.obj].cache_hits_ + heap[last.obj].cache_misses_)
    /\ last.op = "AutoTuneCache::CacheHitRate"
       => IsRatio(last.retf, total_cache_hits_,
                  total_cache_hits_ + total_cache_misses_)
    /\ scen.stage = 1
       => /\ last.op = "Find" /\ ~last.retb
          /\ heap[scen.obj].cache_misses_ = 1
    /\ scen.stage = 3
       => /\ last.op = "Find" /\ last.retb
          /\ heap[scen.obj].cache_hits_ = 1
    /\ scen.stage = 4
       => /\ last.op = "Get" /\ last.status = "ok" /\ last.reti = 7
          /\ LET r == CacheHitRateBody(heap[scen.obj])
             IN  r[1] # 0 /\ 2 * r[1] = Pow2(r[2])

\* the scenario Find(k1), Set(k1, 7), Find(k1), Get(k1) has run on a
\* fresh cache
C10_Witness ==
    /\ scen.stage = 4
    /\ heap[scen.obj].cache_hits_ = 1
    /\ heap[scen.obj].cache_misses_ = 1

(***************************************************************************)
(* Properties of the fingerprint, under SpecHash.                          *)
(***************************************************************************)
\* a 64-bit word as the sequence of its bits, bit 0 first, and the
\* arithmetic on bits
WordBits == NumLimbs * LimbBits
BitIdx == 1..WordBits
Bits(f) == SubSeq(f, 1, WordBits)
BitsOfWord(w) ==
    Bits([i \in BitIdx |->
            (w[((i - 1) \div LimbBits) + 1] \div Pow2((i - 1) % LimbBits)) % 2])
\* two's complement of an integer -2^31 < n < 2^31
BitsOfInt(n) ==
    Bits([i \in BitIdx |->
            IF n >= 0 THEN (IF i < 32 THEN (n \div Pow2(i - 1)) % 2 ELSE 0)
            ELSE 1 - (IF i < 32 THEN ((-n - 1) \div Pow2(i - 1)) % 2 ELSE 0)])
BitsOfGolden ==
    Bits([i \in BitIdx |->
            IF i <= 32
            THEN (GoldenHex[8 - ((i - 1) \div 4)] \div Pow2((i - 1) % 4)) % 2
            ELSE 0])
BitsZero == Bits([i \in BitIdx |-> 0])

\* the bits i.. of a + b, given the carry into bit i; the carry out of the
\* last bit is dropped
RECURSIVE BitsAddFrom(_, _, _, _)
BitsAddFrom(a, b, i, carry) ==
    IF i > WordBits THEN <<>>
    ELSE LET sum == a[i] + b[i] + carry
         IN  <<sum % 2>> \o BitsAddFrom(a, b, i + 1, sum \div 2)
BitsAdd(a, b) == BitsAddFrom(a, b, 1, 0)
BitsShl(a, n) == Bits([i \in BitIdx |-> IF i <= n THEN 0 ELSE a[i - n]])
BitsShr(a, n) == Bits([i \in BitIdx |-> IF i + n > WordBits THEN 0 ELSE a[i + n]])
BitsXor(a, b) == Bits([i \in BitIdx |-> IF a[i] = b[i] THEN 0 ELSE 1])

\* seed XOR (h + 0x9e3779b9 + (seed << 6) + (seed >> 2))
BitsMix(seed, h) ==
    BitsXor(seed, BitsAdd(BitsAdd(BitsAdd(h, BitsOfGolden), BitsShl(seed, 6)),
                          BitsShr(seed, 2)))

\* the left fold of BitsMix over the integers of ints, from seed
RECURSIVE BitsFoldInts(_, _)
BitsFoldInts(seed, ints) ==
    IF Len(ints) = 0 THEN seed
    ELSE LET front == SubSeq(ints, 1, Len(ints) - 1)
         IN  BitsMix(BitsFoldInts(seed, front), BitsOfInt(ints[Len(ints)]))

BitsHash(arg) ==
    IF arg.isvec THEN BitsFoldInts(BitsZero, arg.vec) ELSE BitsOfInt(arg.int)

\* the left fold over the arguments, from seed 0
RECURSIVE BitsFoldArgs(_)
BitsFoldArgs(args) ==
    IF Len(args) = 0 THEN BitsZero
    ELSE LET front == SubSeq(args, 1, Len(args) - 1)
         IN  BitsMix(BitsFoldArgs(front), BitsHash(args[Len(args)]))

\* C11: GetKey(a1, ..., an) is the left fold from seed 0, in argument
\* order, of seed := seed XOR (hash(ai) + 0x9e3779b9 + (seed << 6) +
\* (seed >> 2)) in arithmetic wrapping at 2^64, where the hash of a vector
\* is the same fold over its elements from 0 (0 for an empty vector);
\* GetKey() is 0; and after the call the caches and the registry are as
\* they were.
C11_GetKeyFold ==
    hpc = "key"
    => /\ BitsOfWord(hkey) = BitsFoldArgs(hargs)
       /\ hargs = <<>> => hkey = WordOfInt(0)
       /\ \A i \in 1..Len(hargs) :
             (hargs[i].isvec /\ hargs[i].vec = <<>>)
             => BitsHash(hargs[i]) = BitsZero
       /\ InitCache

\* the key of (-1, [1988, -1]) has been computed: the additions wrapped
C11_Witness ==
    /\ hpc = "key"
    /\ hargs = <<Scalar(-1), Vector(<<1988, -1>>)>>
    /\ hkey # WordZero

\* s with its elements i and j exchanged
Swapped(s, i, j) ==
    [k \in 1..Len(s) |-> IF k = i THEN s[j] ELSE IF k = j THEN s[i] ELSE s[k]]
\* args with the elements a and b of its vector argument i exchanged
SwappedInside(args, i, a, b) ==
    [args EXCEPT ![i] = Vector(Swapped(args[i].vec, a, b))]
SmallInts == -1..MaxSmallArg

MaxOps == 4
ConcNames == {"conv2d"}
ConcKeys == {1}
ConcRates == {10737418, 10737419}
\* what a read of freed memory can return
GarbageReads == {0, 1}

Running == last.status # "crash"
CanStart(t) == Running /\ th[t].pc = "idle" /\ calls < MaxOps
At(t, pc) == Running /\ th[t].pc = pc

\* a lock_guard whose constructor never waits
CanLock_always(m) == TRUE

\* std::lock_guard's constructor returns once the mutex is free
CanLock(m) == m = "free"

\* Clean taking the mutex of every family before it clears the map
CleanWaitsFor_families(hp) == DOMAIN hp

\* the family caches whose mutex Clean takes: it locks
\* autotune_cache_mutex_ only
CleanWaitsFor(hp) == {}

IterPcs == {"u_size", "u_hits", "u_misses"}
BodyPcs == {"find_body", "get_body", "set_body"}

\* history: the sums of Size, hits and misses over the registered families
TrueTotals(map, hp) ==
    <<SumOver([n \in DOMAIN map |-> SizeBody(hp[map[n]])]),
      SumOver([n \in DOMAIN map |-> hp[map[n]].cache_hits_]),
      SumOver([n \in DOMAIN map |-> hp[map[n]].cache_misses_])>>

\* history: every thread inside UpdateStatus notes the sums of the new state
Observe(thr, map, hp) ==
    [u \in Threads |->
        IF thr[u].pc \in IterPcs \cup {"u_store"}
        THEN [thr[u] EXCEPT !.snaps = @ \cup {TrueTotals(map, hp)}]
        ELSE thr[u]]

ZombieOutcomes(o) ==
    IF o \in DOMAIN heap THEN {"alias", "garbage", "crash"}
    ELSE {"garbage", "crash"}

NoFinds == [hit |-> 0, miss |-> 0]

RegisterOrGet_Call(t, algo_type) ==
    /\ CanStart(t)
    /\ calls' = calls + 1
    /\ th' = [th EXCEPT ![t] = [IdleThread EXCEPT !.pc = "rg_lock",
                                                  !.name = algo_type]]
    /\ actor' = t
    /\ last' = [NoCall EXCEPT !.op = "RegisterOrGet.call",
                              !.name = algo_type]
    /\ UNCHANGED <<registry, totals, refs, lastSet, scen, hashVars, finds,
                   stored>>

RegisterOrGet_Lock(t) ==
    /\ At(t, "rg_lock")
    /\ CanLock(autotune_cache_mutex_)
    /\ autotune_cache_mutex_' = t
    /\ th' = [th EXCEPT ![t].pc = "rg_body"]
    /\ actor' = t
    /\ last' = [NoCall EXCEPT !.op = "RegisterOrGet.lock",
                              !.name = th[t].name]
    /\ UNCHANGED <<auto_tune_map_, heap, totals, refs, calls, lastSet, scen,
                   hashVars, finds, stored>>

\* find(), the insertion when the name is absent, the return of the
\* reference and the release of the mutex.  An insertion while another
\* thread iterates over the map is a data race: that thread's loop visits
\* the new node (u \in seen) or does not.
RegisterOrGet_Body(t) ==
    /\ At(t, "rg_body")
    /\ LET algo_type == th[t].name
           had == algo_type \in DOMAIN auto_tune_map_
       IN  \E o \in IF had THEN {auto_tune_map_[algo_type]}
                    ELSE ObjIds \ DOMAIN heap :
           \E seen \in SUBSET (IF had THEN {}
                               ELSE {u \in Threads : th[u].pc \in IterPcs}) :
             LET r == RegisterOrGetBody(auto_tune_map_, heap, algo_type, o)
             IN  /\ auto_tune_map_' = r.map
                 /\ heap' = r.heap
                 /\ refs' = refs \cup {r.map[algo_type]}
                 /\ finds' = IF had THEN finds ELSE Put(finds, o, NoFinds)
                 /\ stored' = IF had THEN stored ELSE Put(stored, o, {})
                 /\ th' = Observe(
                       [u \in Threads |->
                          IF u = t THEN IdleThread
                          ELSE IF u \in seen
                               THEN [th[u] EXCEPT !.todo = @ \cup {o}]
                               ELSE th[u]],
                       r.map, r.heap)
                 /\ last' = [NoCall EXCEPT !.op = "RegisterOrGet",
                                           !.name = algo_type,
                                           !.obj = r.map[algo_type],
                                           !.had = had]
    /\ autotune_cache_mutex_' = "free"
    /\ actor' = t
    /\ UNCHANGED <<totals, calls, lastSet, scen, hashVars>>

Clean_Call(t, miss_rate) ==
    /\ CanStart(t)
    /\ calls' = calls + 1
    /\ th' = [th EXCEPT ![t] = [IdleThread EXCEPT !.pc = "clean_lock",
                                                  !.rate = miss_rate]]
    /\ actor' = t
    /\ last' = [NoCall EXCEPT !.op = "Clean.call", !.rate = miss_rate]
    /\ UNCHANGED <<registry, totals, refs, lastSet, scen, hashVars, finds,
                   stored>>

Clean_Lock(t) ==
    /\ At(t, "clean_lock")
    /\ CanLock(autotune_cache_mutex_)
    /\ autotune_cache_mutex_' = t
    /\ th' = [th EXCEPT ![t].pc = "clean_body"]
    /\ actor' = t
    /\ last' = [NoCall EXCEPT !.op = "Clean.lock", !.rate = th[t].rate]
    /\ UNCHANGED <<auto_tune_map_, heap, totals, refs, calls, lastSet, scen,
                   hashVars, finds, stored>>

\* the comparison, clear(), which destroys every cache object and its
\* mutex, and the release of the registry mutex
Clean_Body(t) ==
    /\ At(t, "clean_body")
    /\ \A o \in CleanWaitsFor(heap) : heap[o].cache_mutex_ = "free"
    /\ auto_tune_map_' = CleanBody(auto_tune_map_, th[t].rate)
    /\ heap' = [o \in {auto_tune_map_'[n] : n \in DOMAIN auto_tune_map_'}
                  |-> heap[o]]
    /\ finds' = [o \in DOMAIN heap' |-> finds[o]]
    /\ stored' = [o \in DOMAIN heap' |-> stored[o]]
    /\ th' = Observe(
          [u \in Threads |->
             IF u = t THEN IdleThread
             ELSE IF th[u].obj \in DOMAIN heap /\ th[u].obj \notin DOMAIN heap'
                  THEN [th[u] EXCEPT !.zombie = TRUE]
                  ELSE th[u]],
          auto_tune_map_', heap')
    /\ autotune_cache_mutex_' = "free"
    /\ actor' = t
    /\ last' = [NoCall EXCEPT !.op = "Clean", !.rate = th[t].rate]
    /\ UNCHANGED <<totals, refs, calls, lastSet, scen, hashVars>>

\* the thread after the call of Find, Get or Set up to and including the
\* lock_guard; for Find also the lookup and the load of the counter that ++
\* will store back
Entered(pc, o, key, algo) ==
    LET found == key \in DOMAIN heap[o].hash_
    IN  [IdleThread EXCEPT
           !.pc = pc, !.obj = o, !.key = key, !.val = algo,
           !.found = pc = "find_body" /\ found,
           !.tmp = IF pc # "find_body" THEN 0
                   ELSE IF found THEN heap[o].cache_hits_
                   ELSE heap[o].cache_misses_]

Find_Enter(t, o, key) ==
    /\ CanStart(t)
    /\ calls' = calls + 1
    /\ o \in refs
    /\ o \in DOMAIN heap
    /\ CanLock(heap[o].cache_mutex_)
    /\ heap' = [heap EXCEPT ![o].cache_mutex_ = t]
    /\ th' = [th EXCEPT ![t] = Entered("find_body", o, key, 0)]
    /\ actor' = t
    /\ last' = [NoCall EXCEPT !.op = "Find.enter", !.obj = o, !.key = key]
    /\ UNCHANGED <<auto_tune_map_, autotune_cache_mutex_, totals, refs,
                   lastSet, scen, hashVars, finds, stored>>

Get_Enter(t, o, key) ==
    /\ CanStart(t)
    /\ calls' = calls + 1
    /\ o \in refs
    /\ o \in DOMAIN heap
    /\ CanLock(heap[o].cache_mutex_)
    /\ heap' = [heap EXCEPT ![o].cache_mutex_ = t]
    /\ th' = [th EXCEPT ![t] = Entered("get_body", o, key, 0)]
    /\ actor' = t
    /\ last' = [NoCall EXCEPT !.op = "Get.enter", !.obj = o, !.key = key]
    /\ UNCHANGED <<auto_tune_map_, autotune_cache_mutex_, totals, refs,
                   lastSet, scen, hashVars, finds, stored>>

Set_Enter(t, o, key, algo) ==
    /\ CanStart(t)
    /\ calls' = calls + 1
    /\ o \in refs
    /\ o \in DOMAIN heap
    /\ CanLock(heap[o].cache_mutex_)
    /\ heap' = [heap EXCEPT ![o].cache_mutex_ = t]
    /\ th' = [th EXCEPT ![t] = Entered("set_body", o, key, algo)]
    /\ actor' = t
    /\ last' = [NoCall EXCEPT !.op = "Set.enter", !.obj = o, !.key = key,
                              !.val = algo]
    /\ UNCHANGED <<auto_tune_map_, autotune_cache_mutex_, totals, refs,
                   lastSet, scen, hashVars, finds, stored>>

\* the counter is stored, the lock_guard destroyed, ret returned
Find_Exit(t) ==
    /\ At(t, "find_body")
    /\ ~th[t].zombie
    /\ LET o == th[t].obj
           r == FindBody(heap[o], th[t].key)
       IN  /\ heap' = [heap EXCEPT
                         ![o] = [r.cache EXCEPT !.cache_mutex_ = "free"]]
           /\ finds' = [finds EXCEPT
                          ![o] = IF r.ret THEN [@ EXCEPT !.hit = @ + 1]
                                 ELSE [@ EXCEPT !.miss = @ + 1]]
           /\ last' = Before([NoCall EXCEPT !.op = "Find", !.obj = o,
                                   !.key = th[t].key, !.retb = r.ret],
                             heap[o], th[t].key)
           /\ th' = Observe([th EXCEPT ![t] = IdleThread], auto_tune_map_,
                            heap')
    /\ actor' = t
    /\ UNCHANGED <<auto_tune_map_, autotune_cache_mutex_, totals, refs,
                   calls, lastSet, scen, hashVars, stored>>

Get_Exit(t) ==
    /\ At(t, "get_body")
    /\ ~th[t].zombie
    /\ LET o == th[t].obj
           r == GetBody(heap[o], th[t].key)
       IN  /\ heap' = [heap EXCEPT
                         ![o] = [r.cache EXCEPT !.cache_mutex_ = "free"]]
           /\ last' = Before([NoCall EXCEPT !.op = "Get", !.obj = o,
                                   !.key = th[t].key, !.status = r.status,
                                   !.reti = r.ret], heap[o], th[t].key)
           /\ th' = Observe([th EXCEPT ![t] = IdleThread], auto_tune_map_,
                            heap')
    /\ actor' = t
    /\ UNCHANGED <<auto_tune_map_, autotune_cache_mutex_, totals, refs,
                   calls, lastSet, scen, hashVars, finds, stored>>

Set_Exit(t) ==
    /\ At(t, "set_body")
    /\ ~th[t].zombie
    /\ LET o == th[t].obj
       IN  /\ heap' = [heap EXCEPT
                         ![o] = [SetBody(@, th[t].key, th[t].val)
                                   EXCEPT !.cache_mutex_ = "free"]]
           /\ stored' = [stored EXCEPT ![o] = @ \cup {th[t].val}]
           /\ last' = Before([NoCall EXCEPT !.op = "Set", !.obj = o,
                                   !.key = th[t].key, !.val = th[t].val],
                             heap[o], th[t].key)
           /\ th' = Observe([th EXCEPT ![t] = IdleThread], auto_tune_map_,
                            heap')
    /\ actor' = t
    /\ UNCHANGED <<auto_tune_map_, autotune_cache_mutex_, totals, refs,
                   calls, lastSet, scen, hashVars, finds>>

\* the rest of Find, Get or Set on an object that Clean has destroyed
\* since the thread locked its mutex
Destroyed_Exit(t) ==
    /\ Running
    /\ th[t].pc \in BodyPcs
    /\ th[t].zombie
    /\ LET o == th[t].obj
           key == th[t].key
       IN  \E out \in ZombieOutcomes(o) :
             /\ heap' =
                  IF out # "alias" THEN heap
                  ELSE IF th[t].pc = "find_body"
                  THEN [heap EXCEPT
                          ![o] = IF th[t].found
                                 THEN [@ EXCEPT !.cache_hits_ = th[t].tmp + 1]
                                 ELSE [@ EXCEPT !.cache_misses_ = th[t].tmp + 1]]
                  ELSE IF th[t].pc = "set_body"
                  THEN [heap EXCEPT ![o] = SetBody(@, key, th[t].val)]
                  ELSE heap
             /\ last' = [NoCall EXCEPT
                           !.op = CASE th[t].pc = "find_body" -> "Find"
                                    [] th[t].pc = "get_body" -> "Get"
                                    [] OTHER -> "Set",
                           !.obj = o, !.key = key, !.val = th[t].val,
                           !.status = out,
                           !.retb = th[t].found,
                           !.reti = IF /\ out = "alias"
                                       /\ th[t].pc = "get_body"
                                       /\ key \in DOMAIN heap[o].hash_
                                    THEN heap[o].hash_[key] ELSE 0]
             /\ th' = Observe(IF out = "crash" THEN th
                              ELSE [th EXCEPT ![t] = IdleThread],
                              auto_tune_map_, heap')
    /\ actor' = t
    /\ UNCHANGED <<auto_tune_map_, autotune_cache_mutex_, totals, refs,
                   calls, lastSet, scen, hashVars, finds, stored>>

\* Size, CacheHits, CacheMisses, CacheHitRate: the members are read without
\* the mutex
Accessor(t, o, which) ==
    /\ CanStart(t)
    /\ calls' = calls + 1
    /\ o \in refs
    /\ o \in DOMAIN heap
    /\ last' = [NoCall EXCEPT
                  !.op = which, !.obj = o,
                  !.reti = CASE which = "Size" -> SizeBody(heap[o])
                             [] which = "CacheHits" -> heap[o].cache_hits_
                             [] which = "CacheMisses" -> heap[o].cache_misses_
                             [] OTHER -> 0,
                  !.retf = IF which = "CacheHitRate"
                           THEN CacheHitRateBody(heap[o]) ELSE FloatZero]
    /\ actor' = t
    /\ UNCHANGED <<registry, totals, refs, lastSet, scen, hashVars, th,
                   finds, stored>>

\* a call through a reference whose object Clean has destroyed
Destroyed_Call(t, o) ==
    /\ CanStart(t)
    /\ calls' = calls + 1
    /\ o \in refs
    /\ o \notin DOMAIN heap
    /\ \E st \in {"garbage", "error", "crash"} :
           last' = [NoCall EXCEPT !.op = "UseAfterClean", !.obj = o,
                                  !.status = st]
    /\ actor' = t
    /\ UNCHANGED <<registry, totals, refs, lastSet, scen, hashVars, th,
                   finds, stored>>

\* the locals are zeroed and the loop starts at some node of the map, or
\* ends at once when the map is empty
UpdateStatus_Start(t) ==
    /\ CanStart(t)
    /\ calls' = calls + 1
    /\ LET objs == {auto_tune_map_[n] : n \in DOMAIN auto_tune_map_}
           now == {TrueTotals(auto_tune_map_, heap)}
       IN  IF objs = {}
           THEN th' = [th EXCEPT ![t] = [IdleThread EXCEPT !.pc = "u_store",
                                                           !.snaps = now]]
           ELSE \E o \in objs :
                  th' = [th EXCEPT ![t] = [IdleThread EXCEPT
                           !.pc = "u_size", !.obj = o, !.todo = objs \ {o},
                           !.snaps = now]]
    /\ actor' = t
    /\ last' = [NoCall EXCEPT !.op = "UpdateStatus.start"]
    /\ UNCHANGED <<registry, totals, refs, lastSet, scen, hashVars, finds,
                   stored>>

\* one of size += v.second.Size(), cache_hits += v.second.CacheHits(),
\* cache_misses += v.second.CacheMisses(); after the last of them the loop
\* moves to the next node or ends.  When Clean has destroyed the node the
\* read returns anything or goes to the object now at that address.
UpdateStatus_Read(t) ==
    /\ Running
    /\ th[t].pc \in IterPcs
    /\ LET o == th[t].obj
           pc == th[t].pc
           field(c) == CASE pc = "u_size" -> SizeBody(c)
                         [] pc = "u_hits" -> c.cache_hits_
                         [] OTHER -> c.cache_misses_
           vals == IF ~th[t].zombie THEN {field(heap[o])}
                   ELSE GarbageReads
                          \cup (IF o \in DOMAIN heap THEN {field(heap[o])}
                                ELSE {})
       IN  \E v \in vals :
             /\ last' = [NoCall EXCEPT
                           !.op = "UpdateStatus.read", !.obj = o,
                           !.status = IF th[t].zombie THEN "garbage" ELSE "ok",
                           !.reti = v]
             /\ \/ /\ pc = "u_size"
                   /\ th' = [th EXCEPT ![t].size = @ + v, ![t].pc = "u_hits"]
                \/ /\ pc = "u_hits"
                   /\ th' = [th EXCEPT ![t].hits = @ + v,
                                       ![t].pc = "u_misses"]
                \/ /\ pc = "u_misses"
                   /\ th[t].todo = {}
                   /\ th' = [th EXCEPT ![t].misses = @ + v,
                                       ![t].pc = "u_store", ![t].obj = 0]
                \/ /\ pc = "u_misses"
                   /\ \E next \in th[t].todo :
                        th' = [th EXCEPT ![t].misses = @ + v,
                                         ![t].pc = "u_size",
                                         ![t].obj = next,
                                         ![t].todo = @ \ {next}]
    /\ actor' = t
    /\ UNCHANGED <<registry, totals, refs, calls, lastSet, scen, hashVars,
                   finds, stored>>

\* an access to a destroyed node ends the process
UpdateStatus_Crash(t) ==
    /\ Running
    /\ th[t].pc \in IterPcs
    /\ th[t].zombie
    /\ last' = [NoCall EXCEPT !.op = "UpdateStatus.read", !.obj = th[t].obj,
                              !.status = "crash"]
    /\ actor' = t
    /\ UNCHANGED <<registry, totals, refs, calls, lastSet, scen, hashVars,
                   th, finds, stored>>

\* the three totals are assigned
UpdateStatus_Store(t) ==
    /\ At(t, "u_store")
    /\ total_size_' = th[t].size
    /\ total_cache_hits_' = th[t].hits
    /\ total_cache_misses_' = th[t].misses
    /\ th' = [th EXCEPT ![t] = IdleThread]
    /\ actor' = t
    /\ last' = [NoCall EXCEPT !.op = "UpdateStatus"]
    /\ UNCHANGED <<registry, refs, calls, lastSet, scen, hashVars, finds,
                   stored>>

NextConc ==
    \/ \E t \in Threads, n \in ConcNames : RegisterOrGet_Call(t, n)
    \/ \E t \in Threads : RegisterOrGet_Lock(t)
    \/ \E t \in Threads : RegisterOrGet_Body(t)
    \/ \E t \in Threads, miss_rate \in ConcRates : Clean_Call(t, miss_rate)
    \/ \E t \in Threads : Clean_Lock(t)
    \/ \E t \in Threads : Clean_Body(t)
    \/ \E t \in Threads, o \in ObjIds, key \in ConcKeys : Find_Enter(t, o, key)
    \/ \E t \in Threads : Find_Exit(t)
    \/ \E t \in Threads, o \in ObjIds, key \in ConcKeys : Get_Enter(t, o, key)
    \/ \E t \in Threads : Get_Exit(t)
    \/ \E t \in Threads, o \in ObjIds, key \in ConcKeys, algo \in Algos :
          Set_Enter(t, o, key, algo)
    \/ \E t \in Threads : Set_Exit(t)
    \/ \E t \in Threads : Destroyed_Exit(t)
    \/ \E t \in Threads, o \in ObjIds,
          which \in {"Size", "CacheHits", "CacheMisses", "CacheHitRate"} :
          Accessor(t, o, which)
    \/ \E t \in Threads, o \in ObjIds : Destroyed_Call(t, o)
    \/ \E t \in Threads : UpdateStatus_Start(t)
    \/ \E t \in Threads : UpdateStatus_Read(t)
    \/ \E t \in Threads : UpdateStatus_Crash(t)
    \/ \E t \in Threads : UpdateStatus_Store(t)

SpecConc == Init /\ [][NextConc]_vars

(***************************************************************************)
(* Properties of the concurrent calls, under SpecConc.                     *)
(***************************************************************************)
UnlockedReads ==
    {"Size", "CacheHits", "CacheMisses", "CacheHitRate", "UpdateStatus.read"}

\* thread u is inside Find or Set on the live cache o, holding its mutex
InsideFindOrSet(u, o) ==
    /\ th[u].pc \in {"find_body", "set_body"}
    /\ th[u].obj = o
    /\ ~th[u].zombie

\* C13: no thread reads a cache's mapping or counters (Size, CacheHits,
\* CacheMisses, CacheHitRate, the reads of UpdateStatus) while another
\* thread is inside Find or Set on the same cache.
C13_ReadsUnderMutex ==
    (last.op \in UnlockedReads /\ last.status = "ok")
    => \A u \in Threads \ {actor} : ~InsideFindOrSet(u, last.obj)

\* C14: a Get never operates on a cache object that Clean has destroyed;
\* it ends with the precondition error or returns a value that a Set stored
\* in that cache.
C14_GetOnLiveCache ==
    /\ \A t \in Threads : th[t].pc = "get_body" => ~th[t].zombie
    /\ last.op = "Get"
       => /\ last.status \in {"ok", "error"}
          /\ last.status = "ok" => last.reti \in stored[last.obj]

\* C15: a thread inside Clean holds the registry mutex and no family's
\* mutex, and its clear() can always go ahead; when it clears the map, the
\* threads that are inside Find, Get or Set stay inside, now on an object
\* that is destroyed and belongs to no registered family.
C15_CleanIgnoresFamilyMutexes ==
    /\ [](\A t \in Threads :
            (th[t].pc = "clean_body" /\ Running)
            => /\ autotune_cache_mutex_ = t
               /\ \A o \in DOMAIN heap : heap[o].cache_mutex_ # t
               /\ ENABLED Clean_Body(t))
    /\ [][\A t \in Threads :
            ( /\ th[t].pc = "clean_body"
              /\ th'[t].pc = "idle"
              /\ ExceedsTolerance(th[t].rate) )
            => /\ auto_tune_map_' = EmptyMap
               /\ heap' = EmptyMap
               /\ \A u \in Threads :
                    th[u].pc \in BodyPcs
                    => /\ th'[u].pc = th[u].pc
                       /\ th'[u].zombie
                       /\ th'[u].obj \notin DOMAIN heap']_vars

\* a Set that was inside its cache when Clean destroyed it has returned,
\* and the key it wrote is in no registered family
C15_Witness ==
    /\ last.op = "Set"
    /\ last.status = "garbage"
    /\ \A n \in DOMAIN auto_tune_map_ :
          last.key \notin DOMAIN heap[auto_tune_map_[n]].hash_

InsideRegistry == {t \in Threads : th[t].pc \in {"rg_body", "clean_body"}}

\* C16: at most one thread is inside RegisterOrGet or Clean, and it holds
\* the registry mutex; RegisterOrGet never replaces the cache of a
\* registered name, and every caller receives the instance registered
\* under the name.
C16_RegistryMutualExclusion ==
    /\ [](/\ Cardinality(InsideRegistry) <= 1
          /\ \A t \in InsideRegistry : autotune_cache_mutex_ = t
          /\ last.op = "RegisterOrGet"
             => /\ last.name \in DOMAIN auto_tune_map_
                /\ last.obj = auto_tune_map_[last.name])
    /\ [][\A t \in Threads :
            ( /\ th[t].pc = "rg_body"
              /\ th'[t].pc = "idle"
              /\ th[t].name \in DOMAIN auto_tune_map_ )
            => /\ auto_tune_map_' = auto_tune_map_
               /\ heap' = heap]_vars

\* two threads have called RegisterOrGet with the same unseen name: one is
\* inside, the other waits for the mutex
C16_Witness ==
    \E t, u \in Threads :
        /\ th[t].pc = "rg_body"
        /\ th[u].pc = "rg_lock"
        /\ th[t].name = th[u].name
        /\ th[t].name \notin DOMAIN auto_tune_map_

\* the mutexes thread t holds
Held(t) ==
    (IF autotune_cache_mutex_ = t THEN {"registry"} ELSE {})
        \cup {o \in DOMAIN heap : heap[o].cache_mutex_ = t}

\* C17: no operation holds two mutexes at once, and every started operation
\* completes: there is no state in which an operation has started and can
\* never take another step.
C17_OperationsComplete ==
    \A t \in Threads :
        /\ Cardinality(Held(t)) <= 1
        /\ th[t].pc # "idle" => Running

\* C18: when no Find is in progress on a cache, its hits and misses are the
\* numbers of the Finds completed on it that returned true and false.
C18_NoLostCounts ==
    \A o \in DOMAIN heap :
        (\A t \in Threads : ~(th[t].pc = "find_body" /\ th[t].obj = o
                              /\ ~th[t].zombie))
        => /\ heap[o].cache_hits_ = finds[o].hit
           /\ heap[o].cache_misses_ = finds[o].miss

\* C19: the totals stored by an UpdateStatus that ran concurrently with
\* Find and Set (no Clean destroyed a family under it) are the sums of Size,
\* hits and misses over the registered families at one instant between its
\* start and its return.
C19_SnapshotAtOneInstant ==
    [][\A t \in Threads :
         (th[t].pc = "u_store" /\ th'[t].pc = "idle" /\ ~th[t].zombie)
         => <<total_size_', total_cache_hits_', total_cache_misses_'>>
               \in th[t].snaps]_vars

\* C20: no RegisterOrGet inserts into the family map and no Clean clears
\* it while a thread is iterating over it in UpdateStatus, and UpdateStatus
\* never reads a family that Clean has destroyed.
C20_MapNotModifiedWhileRead ==
    /\ ( \/ last.op = "RegisterOrGet" /\ ~last.had
         \/ last.op = "Clean" /\ ExceedsTolerance(last.rate) )
       => \A u \in Threads : th[u].pc \notin IterPcs
    /\ last.op = "UpdateStatus.read" => last.status = "ok"
====
